---------------------------- MODULE Spec2Model ----------------------------
(***************************************************************************)
(* Model of the DXF viewer (src/dxf_viewer_qt.py, src/dxf_morphology.py).  *)
(*                                                                         *)
(* Part 1: class DXFRenderer - the scene (entity list, per-type counts,    *)
(* bounds) and the view (zoom_factor, pan offsets, QTransform), driven by  *)
(* load_dxf, reset_view, wheelEvent and widget resizes.                    *)
(*                                                                         *)
(* Python floats are modelled as exact rationals [n, d] in lowest terms    *)
(* with d > 0, so that the arithmetic of the code is computed, not         *)
(* assumed; rounding error of IEEE doubles is abstracted away.             *)
(***************************************************************************)
EXTENDS Integers, Sequences, FiniteSets, TLC

(***************************************************************************)
(* Rational arithmetic                                                     *)
(***************************************************************************)
Abs(i) == IF i < 0 THEN -i ELSE i

RECURSIVE GCD(_, _)
GCD(a, b) == IF b = 0 THEN a ELSE GCD(b, a % b)

Norm(n, d) ==
    LET s == IF d < 0 THEN -1 ELSE 1
        g == GCD(Abs(n), Abs(d))
    IN  [n |-> (s * n) \div g, d |-> (s * d) \div g]

R(i) == [n |-> i, d |-> 1]
Frac(n, d) == Norm(n, d)

RNeg(a) == [n |-> -a.n, d |-> a.d]
RAdd(a, b) ==
    LET g == GCD(a.d, b.d)
    IN  Norm(a.n * (b.d \div g) + b.n * (a.d \div g), (a.d \div g) * b.d)
RSub(a, b) == RAdd(a, RNeg(b))
RMul(a, b) ==
    LET g1 == GCD(Abs(a.n), b.d)
        g2 == GCD(Abs(b.n), a.d)
    IN  IF a.n = 0 \/ b.n = 0 THEN R(0)
        ELSE Norm((a.n \div g1) * (b.n \div g2), (a.d \div g2) * (b.d \div g1))
RInv(a) == Norm(a.d, a.n)
RDiv(a, b) == RMul(a, RInv(b))
RLess(a, b) == a.n * b.d < b.n * a.d
RLeq(a, b) == a.n * b.d <= b.n * a.d
RMin(a, b) == IF RLess(b, a) THEN b ELSE a
RMax(a, b) == IF RLess(a, b) THEN b ELSE a

(***************************************************************************)
(* Bounds of the model                                                     *)
(***************************************************************************)
\* number of wheel events in a run
MaxWheel == 2

(***************************************************************************)
(* Program constants                                                       *)
(***************************************************************************)
\* reset_view: widget_width - 80, widget_height - 80 (a margin of 40 a side)
FitMargin == 80
\* wheelEvent: new_zoom = max(0.01, min(100, new_zoom))
ZoomMin == Frac(1, 100)
ZoomMax == R(100)
\* wheelEvent: zoom_delta = 1.1
ZoomDelta == Frac(11, 10)
\* load_dxf: self.bounds = (-100, -100, 100, 100)
FallbackBounds == <<-100, -100, 100, 100>>

(***************************************************************************)
(* Inputs: entities as the parsed document hands them over                 *)
(*   type : the DXF type tag (entity.dxftype())                            *)
(*   p    : the points of the entity (end points, centre, location,        *)
(*          vertices), integers in scene coordinates                       *)
(*   r    : radius (CIRCLE, ARC)                                           *)
(*   bad  : reading the geometry of the entity raises (for a HATCH: a      *)
(*          boundary path that is an edge path and has no .vertices)       *)
(***************************************************************************)
HLine == [type |-> "LINE", p |-> << <<0, 0>>, <<260, 0>> >>, r |-> 0, bad |-> FALSE]
SmallCircle == [type |-> "CIRCLE", p |-> << <<1, 0>> >>, r |-> 1, bad |-> FALSE]
HugeLine ==
    [type |-> "LINE", p |-> << <<-40000, -30000>>, <<40000, 30000>> >>, r |-> 0, bad |-> FALSE]
PointE == [type |-> "POINT", p |-> << <<5, 7>> >>, r |-> 0, bad |-> FALSE]
InsertE == [type |-> "INSERT", p |-> << >>, r |-> 0, bad |-> FALSE]
BadHatch == [type |-> "HATCH", p |-> << >>, r |-> 0, bad |-> TRUE]

\* the modelspaces of the documents that are opened: empty, one entity of
\* each kind, a drawing with an unsupported entity in the middle, and
\* drawings in which reading an entity raises
Modelspaces ==
    { << >>, <<HLine>>, <<SmallCircle>>, <<HugeLine>>, <<PointE>>, <<InsertE>>,
      <<HLine, InsertE, SmallCircle>>, <<BadHatch>>, <<SmallCircle, BadHatch, HLine>> }

\* the files that are opened: readable = ezdxf.readfile returns a document
Files ==
    {[readable |-> FALSE, msp |-> << >>]} \cup
    {[readable |-> TRUE, msp |-> m] : m \in Modelspaces}

\* widget sizes (setMinimumSize(600, 400)) and cursor positions of wheel events
Sizes == {<<600, 400>>, <<800, 600>>}
MousePositions == {<<0, 0>>, <<450, 100>>}
\* event.angleDelta().y(): one notch down, a horizontal scroll, one notch up
WheelDeltas == {-120, 0, 120}

(***************************************************************************)
(* State                                                                   *)
(***************************************************************************)
VARIABLES
    dxf_doc,        \* self.dxf_doc: [loaded, msp]; loaded = FALSE is None
    dxf_entities,   \* self.dxf_entities
    entity_counts,  \* self.entity_counts: type -> count (a dict)
    bounds,         \* self.bounds = <<min_x, min_y, max_x, max_y>>
    zoom_factor,    \* self.zoom_factor
    pan_offset_x,   \* self.pan_offset_x
    pan_offset_y,   \* self.pan_offset_y
    transform,      \* self.transform: [m11, m22, dx, dy]
    size,           \* <<self.width(), self.height()>>
    nwheel,         \* number of wheel events so far
    last,           \* the last handler that ran, its arguments and result
    painted,        \* what the last paintEvent / convert_to_opencv_image drew
    image,          \* the raster handed to dxf_to_morphology
    results,        \* the dictionary dxf_to_morphology returned
    tabs            \* the tiers MorphologyResultsWindow computed for its tabs

vars == <<dxf_doc, dxf_entities, entity_counts, bounds, zoom_factor,
          pan_offset_x, pan_offset_y, transform, size, nwheel, last,
          painted, image, results, tabs>>

scene == <<dxf_doc, dxf_entities, entity_counts, bounds>>
view == <<zoom_factor, pan_offset_x, pan_offset_y, transform>>
morph == <<image, results, tabs>>

(***************************************************************************)
(* QTransform: the affine map  (x, y) -> (m11*x + dx, m22*y + dy)          *)
(***************************************************************************)
\* QTransform()
Identity == [m11 |-> R(1), m22 |-> R(1), dx |-> R(0), dy |-> R(0)]

\* QTransform.translate(tx, ty): the translation is applied to the point first
Translate(t, tx, ty) ==
    [t EXCEPT !.dx = RAdd(@, RMul(t.m11, tx)), !.dy = RAdd(@, RMul(t.m22, ty))]

\* QTransform.scale(sx, sy)
Scale(t, sx, sy) == [t EXCEPT !.m11 = RMul(@, sx), !.m22 = RMul(@, sy)]

\* QTransform.map(QPointF)
Map(t, pt) == <<RAdd(RMul(t.m11, pt[1]), t.dx), RAdd(RMul(t.m22, pt[2]), t.dy)>>

\* QTransform.inverted()[0]: the inverse, or the identity for a singular matrix
Inverted(t) ==
    IF t.m11.n = 0 \/ t.m22.n = 0 THEN Identity
    ELSE [m11 |-> RInv(t.m11), m22 |-> RInv(t.m22),
          dx |-> RNeg(RDiv(t.dx, t.m11)), dy |-> RNeg(RDiv(t.dy, t.m22))]

RPoint(pt) == <<R(pt[1]), R(pt[2])>>

(***************************************************************************)
(* load_dxf: the loop over the modelspace                                  *)
(***************************************************************************)
RECURSIVE SeqMin(_), SeqMax(_)
\* min(x_coords), max(x_coords) of a non-empty list
SeqMin(s) ==
    IF Len(s) = 1 THEN s[1]
    ELSE LET m == SeqMin(Tail(s)) IN IF s[1] <= m THEN s[1] ELSE m
SeqMax(s) ==
    IF Len(s) = 1 THEN s[1]
    ELSE LET m == SeqMax(Tail(s)) IN IF s[1] >= m THEN s[1] ELSE m

\* entity_counts[entity_type] += 1, or = 1 for a type not yet in the dict
CountType(counts, t) ==
    IF t \in DOMAIN counts THEN [counts EXCEPT ![t] = @ + 1]
    ELSE [u \in DOMAIN counts \cup {t} |-> IF u = t THEN 1 ELSE counts[u]]

\* math.sqrt(major_axis[0]**2 + major_axis[1]**2), for an axis that is
\* parallel to X or to Y (the sum is then a square)
MajorRadius(e) ==
    LET n == e.major_axis[1] * e.major_axis[1] + e.major_axis[2] * e.major_axis[2]
    IN  CHOOSE k \in 0..n : k * k = n
\* major_radius * ratio, for a ratio that gives an integer
MinorRadius(e) == (MajorRadius(e) * e.ratio.n) \div e.ratio.d

\* the x values an entity appends to x_coords (the branch of its type tag)
XCoords(e) ==
    CASE e.type = "LINE" -> <<e.p[1][1], e.p[2][1]>>
      [] e.type \in {"CIRCLE", "ARC"} -> <<e.p[1][1] - e.r, e.p[1][1] + e.r>>
      [] e.type \in {"POINT", "HATCH", "SOLID", "3DFACE", "LWPOLYLINE", "POLYLINE"} ->
             [i \in 1..Len(e.p) |-> e.p[i][1]]
      [] e.type = "ELLIPSE" -> <<e.p[1][1] - MajorRadius(e), e.p[1][1] + MajorRadius(e)>>
      [] OTHER -> << >>

\* the y values an entity appends to y_coords
YCoords(e) ==
    CASE e.type = "LINE" -> <<e.p[1][2], e.p[2][2]>>
      [] e.type \in {"CIRCLE", "ARC"} -> <<e.p[1][2] - e.r, e.p[1][2] + e.r>>
      [] e.type \in {"POINT", "HATCH", "SOLID", "3DFACE", "LWPOLYLINE", "POLYLINE"} ->
             [i \in 1..Len(e.p) |-> e.p[i][2]]
      [] e.type = "ELLIPSE" -> <<e.p[1][2] - MinorRadius(e), e.p[1][2] + MinorRadius(e)>>
      [] OTHER -> << >>

\* reading the geometry of the entity raises inside the loop
Raises(e) == e.bad

\* for entity in msp: count it, store it, then extend x_coords and y_coords.
\* An exception leaves the loop (and the try block) at once: the entity that
\* raised is already counted and stored, the entities after it are not visited.
RECURSIVE ScanEntities(_, _, _)
ScanEntities(msp, i, acc) ==
    IF i > Len(msp) THEN acc
    ELSE LET e == msp[i]
             stored == [acc EXCEPT !.counts = CountType(@, e.type),
                                   !.ents = Append(@, e)]
         IN  IF Raises(e) THEN [stored EXCEPT !.raised = TRUE]
             ELSE ScanEntities(msp, i + 1,
                      [stored EXCEPT !.xs = @ \o XCoords(e), !.ys = @ \o YCoords(e)])

ScanStart == [ents |-> << >>, counts |-> << >>, xs |-> << >>, ys |-> << >>, raised |-> FALSE]

\* mutant: no fallback, the initial bounds are kept for an empty list
ComputeBoundsNoFallback(xs, ys) ==
    IF xs # << >> /\ ys # << >>
    THEN <<SeqMin(xs), SeqMin(ys), SeqMax(xs), SeqMax(ys)>>
    ELSE <<0, 0, 0, 0>>

\* mutant: a zero-size box is replaced by the fallback box
ComputeBoundsDegenerateFallback(xs, ys) ==
    IF xs # << >> /\ ys # << >> /\ SeqMin(xs) < SeqMax(xs) /\ SeqMin(ys) < SeqMax(ys)
    THEN <<SeqMin(xs), SeqMin(ys), SeqMax(xs), SeqMax(ys)>>
    ELSE FallbackBounds

\* mutant: min and max taken the wrong way round
ComputeBoundsSwapped(xs, ys) ==
    IF xs # << >> /\ ys # << >>
    THEN <<SeqMax(xs), SeqMax(ys), SeqMin(xs), SeqMin(ys)>>
    ELSE FallbackBounds

\* if x_coords and y_coords: (min, min, max, max) else the fallback box
ComputeBounds(xs, ys) ==
    IF xs # << >> /\ ys # << >>
    THEN <<SeqMin(xs), SeqMin(ys), SeqMax(xs), SeqMax(ys)>>
    ELSE FallbackBounds

(***************************************************************************)
(* reset_view and update_transform                                         *)
(***************************************************************************)
\* mutant: the less restrictive of the two axis ratios
FitZoomMax(b, sz) ==
    LET dxf_width == b[3] - b[1]
        dxf_height == b[4] - b[2]
    IN  IF dxf_width > 0 /\ dxf_height > 0
        THEN RMax(Frac(sz[1] - FitMargin, dxf_width), Frac(sz[2] - FitMargin, dxf_height))
        ELSE R(1)

\* zoom of the fit: min of the two axis ratios, or 1.0 for a degenerate box
FitZoom(b, sz) ==
    LET dxf_width == b[3] - b[1]
        dxf_height == b[4] - b[2]
    IN  IF dxf_width > 0 /\ dxf_height > 0
        THEN RMin(Frac(sz[1] - FitMargin, dxf_width), Frac(sz[2] - FitMargin, dxf_height))
        ELSE R(1)

\* pan_offset_x = widget_width / 2 - center_x * zoom_factor
FitPanX(b, sz, zoom) == RSub(Frac(sz[1], 2), RMul(Frac(b[1] + b[3], 2), zoom))

\* pan_offset_y = widget_height / 2 + center_y * zoom_factor
FitPanY(b, sz, zoom) == RAdd(Frac(sz[2], 2), RMul(Frac(b[2] + b[4], 2), zoom))

\* update_transform: translate(pan_x, pan_y) then scale(zoom, -zoom)
UpdateTransform(zoom, px, py) == Scale(Translate(Identity, px, py), zoom, RNeg(zoom))

\* reset_view on a scene (ents, b) in a widget of size sz, from the view cur:
\* the view after the call
ResetViewOf(ents, b, sz, cur) ==
    IF ents = << >> THEN cur
    ELSE LET z == FitZoom(b, sz)
             px == FitPanX(b, sz, z)
             py == FitPanY(b, sz, z)
         IN  [zoom |-> z, px |-> px, py |-> py, tr |-> UpdateTransform(z, px, py)]

CurrentView ==
    [zoom |-> zoom_factor, px |-> pan_offset_x, py |-> pan_offset_y, tr |-> transform]

SetView(v) ==
    /\ zoom_factor' = v.zoom
    /\ pan_offset_x' = v.px
    /\ pan_offset_y' = v.py
    /\ transform' = v.tr

NoArgs ==
    [mouse |-> <<0, 0>>, up |-> FALSE, old_pos |-> RPoint(<<0, 0>>), readable |-> FALSE,
     delta |-> 0, old_zoom |-> R(1), old_pan |-> RPoint(<<0, 0>>)]
Done(op, ret) == [op |-> op, ret |-> ret] @@ NoArgs

(***************************************************************************)
(* wheelEvent                                                              *)
(***************************************************************************)
\* new_zoom: zoom * 1.1 for angleDelta().y() > 0, zoom / 1.1 otherwise,
\* then max(0.01, min(100, new_zoom))
\* mutant: the new zoom is not clamped
WheelZoomUnclamped(zoom, up) ==
    IF up THEN RMul(zoom, ZoomDelta) ELSE RDiv(zoom, ZoomDelta)

WheelZoom(zoom, up) ==
    LET new_zoom == IF up THEN RMul(zoom, ZoomDelta) ELSE RDiv(zoom, ZoomDelta)
    IN  RMax(ZoomMin, RMin(ZoomMax, new_zoom))

\* old_pos = self.transform.inverted()[0].map(mouse_pos)
OldPos(tr, mouse) == Map(Inverted(tr), RPoint(mouse))

\* pan_offset_x = mouse_pos.x() - (old_pos.x() * new_zoom)
WheelPanX(mouse, old_pos, new_zoom) == RSub(R(mouse[1]), RMul(old_pos[1], new_zoom))

\* mutant: the y offset computed like the x offset, without the inverted axis
WheelPanYNotInverted(mouse, old_pos, new_zoom) ==
    RSub(R(mouse[2]), RMul(old_pos[2], new_zoom))

\* pan_offset_y = mouse_pos.y() + (old_pos.y() * new_zoom)
WheelPanY(mouse, old_pos, new_zoom) == RAdd(R(mouse[2]), RMul(old_pos[2], new_zoom))

(***************************************************************************)
(* paintEvent, convert_to_opencv_image and draw_entity                     *)
(***************************************************************************)
\* a SOLID with three corners, and the documents that hold it
SolidE == [type |-> "SOLID", p |-> << <<0, 0>>, <<4, 0>>, <<4, 3>> >>, r |-> 0, bad |-> FALSE]
RenderFiles ==
    Files \cup {[readable |-> TRUE, msp |-> m] : m \in {<<SolidE>>, <<HLine, SolidE, SmallCircle>>}}

\* self.entity_colors
EntityColors ==
    [LINE |-> <<255, 255, 255>>, CIRCLE |-> <<0, 255, 255>>, ARC |-> <<255, 0, 255>>,
     TEXT |-> <<255, 255, 0>>, LWPOLYLINE |-> <<0, 255, 0>>,
     POLYLINE |-> <<100, 255, 100>>, default |-> <<255, 200, 0>>]

\* mutant: the colour table indexed without a default
EntityColorNoDefault(entity_type) ==
    IF entity_type \in DOMAIN EntityColors THEN EntityColors[entity_type]
    ELSE EntityColors["LINE"]

\* self.entity_colors.get(entity_type, self.entity_colors['default'])
EntityColor(entity_type) ==
    IF entity_type \in DOMAIN EntityColors THEN EntityColors[entity_type]
    ELSE EntityColors["default"]

\* entity.closed, hasattr(entity, 'closed') and entity.closed, path.is_closed
IsClosed(e) == "closed" \in DOMAIN e /\ e.closed

\* painter.drawLine(a, b), painter.drawEllipse(c, rx, ry)
DrawLine(a, b) == [kind |-> "line", a |-> a, b |-> b]
DrawEllipse(c, rx, ry) == [kind |-> "ellipse", a |-> c, b |-> <<rx, ry>>]

\* mutant: the path is never closed
SegmentsNeverClosed(points, closed) ==
    [i \in 1..(IF Len(points) = 0 THEN 0 ELSE Len(points) - 1) |->
        DrawLine(points[i], points[i + 1])]

\* for i in range(len(points) - 1): drawLine(points[i], points[i + 1]),
\* then the closing segment of a closed path with more than one point
Segments(points, closed) ==
    [i \in 1..(IF Len(points) = 0 THEN 0 ELSE Len(points) - 1) |->
        DrawLine(points[i], points[i + 1])]
    \o (IF closed /\ Len(points) > 1
        THEN <<DrawLine(points[Len(points)], points[1])>> ELSE << >>)

\* the branch of draw_entity raises: a SOLID/3DFACE with three or more
\* corners reaches QPainterPath(), a name the module does not import; a HATCH
\* whose path has no .vertices raises as in load_dxf
DrawRaises(e) ==
    \/ e.type \in {"SOLID", "3DFACE"} /\ Len(e.p) >= 3
    \/ e.type = "HATCH" /\ Raises(e)

\* the angle an ARC spans, in degrees: end_rad += 2 * pi when end < start
ArcSpan(e) ==
    IF e.end_angle < e.start_angle THEN e.end_angle + 360 - e.start_angle
    ELSE e.end_angle - e.start_angle

\* steps = max(20, int(radius * abs(end_rad - start_rad) * 0.5)); pi is taken
\* as 355/113, which gives the same integer for the arcs of the documents
ArcSteps(e) ==
    LET n == (e.r * ArcSpan(e) * 355) \div (113 * 360)
    IN  IF n > 20 THEN n ELSE 20

\* the segments between the steps + 1 points sampled along a curve: segment
\* i joins sample i - 1 and sample i
SampledSegments(steps) ==
    [i \in 1..steps |-> [kind |-> "sampled", a |-> <<i - 1, steps>>, b |-> <<i, steps>>]]

\* the primitives the branch of the type tag hands to the painter (the
\* branches of the entity types of the documents of the model; a SPLINE is
\* in none of them)
DrawPrimitives(e) ==
    CASE e.type = "LINE" -> <<DrawLine(e.p[1], e.p[2])>>
      [] e.type = "ARC" -> SampledSegments(ArcSteps(e))
      [] e.type = "ELLIPSE" -> SampledSegments(72)
      [] e.type \in {"LWPOLYLINE", "POLYLINE"} -> Segments(e.p, IsClosed(e))
      [] e.type = "CIRCLE" -> <<DrawEllipse(e.p[1], e.r, e.r)>>
      [] e.type = "POINT" ->
             <<DrawLine(<<e.p[1][1] - 2, e.p[1][2]>>, <<e.p[1][1] + 2, e.p[1][2]>>),
               DrawLine(<<e.p[1][1], e.p[1][2] - 2>>, <<e.p[1][1], e.p[1][2] + 2>>)>>
      [] e.type = "HATCH" -> Segments(e.p, IsClosed(e))
      [] OTHER -> << >>

\* mutant: a type tag without a branch is an error
DrawEntityStrict(i, e) ==
    [i |-> i, color |-> EntityColor(e.type),
     prims |-> IF DrawRaises(e) THEN << >> ELSE DrawPrimitives(e),
     raised |-> DrawRaises(e)
                \/ e.type \notin {"LINE", "CIRCLE", "POINT", "HATCH", "SOLID", "3DFACE",
                                   "ARC", "ELLIPSE", "LWPOLYLINE", "POLYLINE"}]

\* draw_entity(painter, entity) for the i-th entity: the pen colour, the
\* primitives drawn and whether the call raised
DrawEntity(i, e) ==
    [i |-> i, color |-> EntityColor(e.type),
     prims |-> IF DrawRaises(e) THEN << >> ELSE DrawPrimitives(e),
     raised |-> DrawRaises(e)]

\* for entity in self.dxf_entities: self.draw_entity(painter, entity); neither
\* loop has an except clause, so a call that raises ends the loop
RECURSIVE DrawEntities(_, _, _)
DrawEntities(ents, i, calls) ==
    IF i > Len(ents) THEN [calls |-> calls, raised |-> FALSE]
    ELSE LET d == DrawEntity(i, ents[i])
         IN  IF d.raised THEN [calls |-> Append(calls, d), raised |-> TRUE]
             ELSE DrawEntities(ents, i + 1, Append(calls, d))

NoPaint ==
    [op |-> "none", ents |-> << >>, tr |-> Identity, calls |-> << >>,
     raised |-> FALSE, empty |-> FALSE]

\* paintEvent(event)
PaintEvent ==
    /\ painted' =
         IF dxf_entities = << >>
         THEN \* background and "Sin archivo DXF cargado"
              [NoPaint EXCEPT !.op = "paint", !.empty = TRUE]
         ELSE LET d == DrawEntities(dxf_entities, 1, << >>)
              IN  [op |-> "paint", ents |-> dxf_entities, tr |-> transform,
                   calls |-> d.calls, raised |-> d.raised, empty |-> FALSE]
    /\ UNCHANGED <<scene, view, size, nwheel, last, morph>>

\* convert_to_opencv_image()
ConvertToOpencvImage ==
    /\ painted' =
         LET d == DrawEntities(dxf_entities, 1, << >>)
         IN  [op |-> "export", ents |-> dxf_entities, tr |-> transform,
              calls |-> d.calls, raised |-> d.raised, empty |-> FALSE]
    /\ UNCHANGED <<scene, view, size, nwheel, last, morph>>

NoImage == [kind |-> "none"]
NoResults == [kind |-> "none"]
NoTabs == [kind |-> "none"]

(***************************************************************************)
(* The state machine                                                       *)
(***************************************************************************)
\* DXFRenderer.__init__
Init ==
    /\ dxf_doc = [loaded |-> FALSE, msp |-> << >>]
    /\ dxf_entities = << >>
    /\ entity_counts = << >>
    /\ bounds = <<0, 0, 0, 0>>
    /\ zoom_factor = R(1)
    /\ pan_offset_x = R(0)
    /\ pan_offset_y = R(0)
    /\ transform = Identity
    /\ size \in Sizes
    /\ nwheel = 0
    /\ last = Done("init", TRUE)
    /\ painted = NoPaint
    /\ image = NoImage
    /\ results = NoResults
    /\ tabs = NoTabs

\* load_dxf(filepath): the file read is either unreadable (readfile raises)
\* or a document with modelspace file.msp
LoadDxf(file) ==
    LET readable == file.readable
        msp == file.msp
        scan == ScanEntities(msp, 1, ScanStart)
        b == ComputeBounds(scan.xs, scan.ys)
    IN  /\ UNCHANGED <<size, nwheel, painted, morph>>
        /\ IF ~readable
           THEN \* readfile raised: except branch, return False
                /\ UNCHANGED <<scene, view>>
                /\ last' = [Done("load", FALSE) EXCEPT !.readable = FALSE]
           ELSE /\ dxf_doc' = [loaded |-> TRUE, msp |-> msp]
                /\ dxf_entities' = scan.ents
                /\ entity_counts' = scan.counts
                /\ IF scan.raised
                   THEN \* the loop raised: except branch, return False
                        /\ UNCHANGED <<bounds, view>>
                        /\ last' = [Done("load", FALSE) EXCEPT !.readable = TRUE]
                   ELSE /\ bounds' = b
                        /\ SetView(ResetViewOf(scan.ents, b, size, CurrentView))
                        /\ last' = [Done("load", TRUE) EXCEPT !.readable = TRUE]

\* reset_view(), from the toolbar
ResetView ==
    /\ SetView(ResetViewOf(dxf_entities, bounds, size, CurrentView))
    /\ last' = Done("reset", TRUE)
    /\ UNCHANGED <<scene, size, nwheel, painted, morph>>

\* wheelEvent(event): mouse = event.position(), delta = event.angleDelta().y()
WheelEvent(mouse, delta) ==
    LET up == delta > 0
        new_zoom == WheelZoom(zoom_factor, up)
        old_pos == OldPos(transform, mouse)
        px == WheelPanX(mouse, old_pos, new_zoom)
        py == WheelPanY(mouse, old_pos, new_zoom)
    IN  /\ nwheel < MaxWheel
        /\ nwheel' = nwheel + 1
        /\ zoom_factor' = new_zoom
        /\ pan_offset_x' = px
        /\ pan_offset_y' = py
        /\ transform' = UpdateTransform(new_zoom, px, py)
        /\ last' = [Done("wheel", TRUE) EXCEPT !.mouse = mouse, !.up = up,
                                               !.old_pos = old_pos, !.delta = delta,
                                               !.old_zoom = zoom_factor,
                                               !.old_pan = <<pan_offset_x, pan_offset_y>>]
        /\ UNCHANGED <<scene, size, painted, morph>>

\* the widget is resized by its layout; the class has no resizeEvent
Resize(sz) ==
    /\ sz # size
    /\ size' = sz
    /\ last' = Done("resize", TRUE)
    /\ UNCHANGED <<scene, view, nwheel, painted, morph>>

Next ==
    \/ \E file \in Files : LoadDxf(file)
    \/ ResetView
    \/ \E mouse \in MousePositions, delta \in WheelDeltas : WheelEvent(mouse, delta)
    \/ \E sz \in Sizes : Resize(sz)

Spec == Init /\ [][Next]_vars

\* loading and rendering: the scenes load_dxf leaves, painted and exported
NextRender ==
    \/ \E file \in RenderFiles : LoadDxf(file)
    \/ PaintEvent
    \/ ConvertToOpencvImage

SpecRender == Init /\ [][NextRender]_vars

(***************************************************************************)
(* Curves and paths: arcs, ellipses, polylines and hatch paths             *)
(***************************************************************************)
\* half circles of radius 100 (the second one passes 0 degrees) and a
\* quarter circle of radius 10
ArcE ==
    [type |-> "ARC", p |-> << <<0, 0>> >>, r |-> 100, bad |-> FALSE,
     start_angle |-> 0, end_angle |-> 180]
ArcWrap ==
    [type |-> "ARC", p |-> << <<0, 0>> >>, r |-> 100, bad |-> FALSE,
     start_angle |-> 270, end_angle |-> 90]
ArcSmall ==
    [type |-> "ARC", p |-> << <<0, 0>> >>, r |-> 10, bad |-> FALSE,
     start_angle |-> 0, end_angle |-> 90]

\* full ellipses with ratio 1/2: major axis along X, major axis along Y;
\* start_param and end_param are counted in quarter turns (0 and 2 * pi)
EllipseH ==
    [type |-> "ELLIPSE", p |-> << <<0, 0>> >>, r |-> 0, bad |-> FALSE,
     major_axis |-> <<10, 0>>, ratio |-> Frac(1, 2), start_quarter |-> 0, end_quarter |-> 4]
EllipseV ==
    [type |-> "ELLIPSE", p |-> << <<0, 0>> >>, r |-> 0, bad |-> FALSE,
     major_axis |-> <<0, 10>>, ratio |-> Frac(1, 2), start_quarter |-> 0, end_quarter |-> 4]

\* polylines and hatch paths, open and closed; a POLYLINE object without the
\* attribute 'closed'; a closed path with a single vertex
Triangle == << <<0, 0>>, <<40, 0>>, <<40, 30>> >>
Quad == << <<0, 0>>, <<40, 0>>, <<40, 30>>, <<0, 30>> >>
OpenLw == [type |-> "LWPOLYLINE", p |-> Triangle, r |-> 0, bad |-> FALSE, closed |-> FALSE]
ClosedLw == [type |-> "LWPOLYLINE", p |-> Triangle, r |-> 0, bad |-> FALSE, closed |-> TRUE]
OpenPoly == [type |-> "POLYLINE", p |-> Quad, r |-> 0, bad |-> FALSE, closed |-> FALSE]
ClosedPoly == [type |-> "POLYLINE", p |-> Quad, r |-> 0, bad |-> FALSE, closed |-> TRUE]
TwoPointClosed ==
    [type |-> "LWPOLYLINE", p |-> << <<0, 0>>, <<40, 30>> >>, r |-> 0, bad |-> FALSE,
     closed |-> TRUE]
OnePointClosed ==
    [type |-> "LWPOLYLINE", p |-> << <<5, 7>> >>, r |-> 0, bad |-> FALSE, closed |-> TRUE]
PolyNoFlag == [type |-> "POLYLINE", p |-> Triangle, r |-> 0, bad |-> FALSE]
OpenHatch == [type |-> "HATCH", p |-> Triangle, r |-> 0, bad |-> FALSE, closed |-> FALSE]
ClosedHatch == [type |-> "HATCH", p |-> Quad, r |-> 0, bad |-> FALSE, closed |-> TRUE]

ArcFiles == {[readable |-> TRUE, msp |-> <<e>>] : e \in {ArcE, ArcSmall}}
ShapeFiles ==
    {[readable |-> TRUE, msp |-> <<e>>] :
        e \in {HLine, ArcE, ArcWrap, ArcSmall, EllipseH, EllipseV, OpenLw, ClosedLw,
               OpenPoly, ClosedPoly, TwoPointClosed, OnePointClosed, PolyNoFlag,
               OpenHatch, ClosedHatch}}
    \cup {[readable |-> TRUE, msp |-> <<ClosedLw, EllipseV, OpenPoly>>]}

\* math.cos and math.sin of a multiple of 90 degrees
CosDeg(a) == CASE a % 360 = 0 -> 1 [] a % 360 = 180 -> -1 [] OTHER -> 0
SinDeg(a) == CASE a % 360 = 90 -> 1 [] a % 360 = 270 -> -1 [] OTHER -> 0

\* center + radius * (cos(angle), sin(angle))
ArcPoint(e, a) == <<e.p[1][1] + e.r * CosDeg(a), e.p[1][2] + e.r * SinDeg(a)>>

\* entity.vertices([param]) at a quarter turn q: center + cos * major_axis +
\* sin * minor_axis, the minor axis being the major axis turned by 90 degrees
\* and scaled by ratio
EllipsePoint(e, q) ==
    LET minor_x == (-e.major_axis[2] * e.ratio.n) \div e.ratio.d
        minor_y == (e.major_axis[1] * e.ratio.n) \div e.ratio.d
    IN  <<e.p[1][1] + CosDeg(90 * q) * e.major_axis[1] + SinDeg(90 * q) * minor_x,
          e.p[1][2] + CosDeg(90 * q) * e.major_axis[2] + SinDeg(90 * q) * minor_y>>

\* the sampled points of a curve that fall on a multiple of a quarter turn:
\* the first and the last point of an arc, samples 0, 18, 36, 54 and 72 of a
\* full ellipse
QuarterSamples(e) ==
    CASE e.type = "ARC" ->
             {ArcPoint(e, a) : a \in {b \in {e.start_angle, e.end_angle} : b % 90 = 0}}
      [] e.type = "ELLIPSE" -> {EllipsePoint(e, q) : q \in e.start_quarter..e.end_quarter}
      [] OTHER -> {}

\* paths and curves, loaded one at a time, painted and exported
NextShapes ==
    \/ \E file \in ShapeFiles : LoadDxf(file)
    \/ PaintEvent
    \/ ConvertToOpencvImage

SpecShapes == Init /\ [][NextShapes]_vars

\* an arc painted at the zooms the wheel gives
NextArc ==
    \/ \E file \in ArcFiles : LoadDxf(file)
    \/ \E mouse \in MousePositions, delta \in WheelDeltas : WheelEvent(mouse, delta)
    \/ PaintEvent

SpecArc == Init /\ [][NextArc]_vars

(***************************************************************************)
(* dxf_morphology: process_dxf_image and dxf_to_morphology                 *)
(***************************************************************************)
MaxContours == 4      \* contours in a forest
MaxCount == 2         \* contours a threshold strategy finds, in the selection rasters

\* what cv2.contourArea, cv2.arcLength and cv2.moments give for a contour:
\* a single point, a 10 x 10 square and a 20 x 20 plate
Dot == [area |-> 0, perimetro |-> 0, m00 |-> 0, m10 |-> 0, m01 |-> 0]
Square == [area |-> 100, perimetro |-> 40, m00 |-> 100, m10 |-> 1500, m01 |-> 2550]
Plate == [area |-> 400, perimetro |-> 80, m00 |-> 400, m10 |-> 12000, m01 |-> 8100]
\* the shapes of the contours of the forests
Shapes == {Dot, Square}

\* hierarchy is None / hierarchy[0][i][3] for i = 0 .. len(contours) - 1,
\* with -1 for a contour without parent
HierarchyNone == [none |-> TRUE, rows |-> << >>]
Hierarchy(rows) == [none |-> FALSE, rows |-> rows]

\* following the parent entries from contour i ends at -1
RECURSIVE ReachesRoot(_, _, _)
ReachesRoot(f, i, fuel) ==
    IF i = -1 THEN TRUE
    ELSE IF fuel = 0 THEN FALSE
    ELSE ReachesRoot(f, f[i], fuel - 1)

\* the parent columns of n contours (indices as in Python, from 0)
ParentColumns(n) ==
    {f \in [0..(n - 1) -> -1..(n - 1)] : \A i \in 0..(n - 1) : ReachesRoot(f, i, n)}

\* what cv2.findContours returns: the contours and their hierarchy
Found(contours, rows) == [contours |-> contours, rows |-> rows]
NothingFound == Found(<< >>, << >>)
\* n contours with the shapes s[1..n] and the parent column f[0..n-1]
Forest(n, f, s) == Found(s, [k \in 1..n |-> f[k - 1]])

\* c contours without parent, all of one shape
Uniform(c, shape) == Found([k \in 1..c |-> shape], [k \in 1..c |-> -1])

\* a numpy array of the given shape for which the three thresholded copies
\* give found[1] (fixed threshold), found[2] (adaptive) and found[3] (Otsu)
Raster(shape, found) == [kind |-> "raster", shape |-> shape, found |-> found]
SelectionImages ==
    {Raster(<<400, 600, 3>>, <<Uniform(a, Dot), Uniform(b, Square), Uniform(c, Plate)>>) :
        a \in 0..MaxCount, b \in 0..MaxCount, c \in 0..MaxCount}
ForestImage(n, f, s) ==
    Raster(<<400, 600, 3>>, <<Forest(n, f, s), NothingFound, NothingFound>>)
InvalidImages ==
    {NoImage,
     Raster(<<0>>, <<NothingFound, NothingFound, NothingFound>>),
     Raster(<<0, 0, 3>>, <<NothingFound, NothingFound, NothingFound>>)}

\* dxf_image.size
RECURSIVE Product(_)
Product(s) == IF s = << >> THEN 1 ELSE s[1] * Product(Tail(s))
ImageSize(img) == Product(img.shape)

\* an h x w array with the texts written and the contours drawn on it; cv2 clips what it
\* draws to the array, so an array without pixels shows nothing
Img(h, w, texts, drawn) ==
    [h |-> h, w |-> w,
     texts |-> IF h > 0 /\ w > 0 THEN texts ELSE << >>,
     drawn |-> IF h > 0 /\ w > 0 THEN drawn ELSE << >>]

\* contours_counts, in the order the code lists the strategies
ContoursCounts(img) ==
    <<[count |-> Len(img.found[1].contours), found |-> img.found[1], method |-> "Umbral invertido"],
      [count |-> Len(img.found[2].contours), found |-> img.found[2], method |-> "Umbral adaptativo"],
      [count |-> Len(img.found[3].contours), found |-> img.found[3], method |-> "Umbral Otsu"]>>

\* mutant: equal counts change places
RECURSIVE InsertDescendingUnstable(_, _)
InsertDescendingUnstable(sorted, x) ==
    IF sorted = << >> THEN <<x>>
    ELSE IF sorted[1].count > x.count
         THEN <<sorted[1]>> \o InsertDescendingUnstable(Tail(sorted), x)
         ELSE <<x>> \o sorted

\* list.sort(reverse=True, key=count) is stable: an element goes behind every
\* element already placed whose count is greater or equal
RECURSIVE InsertDescending(_, _)
InsertDescending(sorted, x) ==
    IF sorted = << >> THEN <<x>>
    ELSE IF sorted[1].count >= x.count
         THEN <<sorted[1]>> \o InsertDescending(Tail(sorted), x)
         ELSE <<x>> \o sorted

RECURSIVE SortDescending(_, _, _)
SortDescending(s, i, sorted) ==
    IF i > Len(s) THEN sorted
    ELSE SortDescending(s, i + 1, InsertDescending(sorted, s[i]))

\* process_dxf_image(image) for an image that is a colour array: the image,
\* its grey copy, the contours and the hierarchy of contours_counts[0]
ProcessDxfImage(img) ==
    LET best == SortDescending(ContoursCounts(img), 1, << >>)[1]
        gray == Img(img.shape[1], img.shape[2], << >>, << >>)
    IN  IF best.count = 0
        THEN [image |-> img, gray |-> gray, contours |-> << >>,
              hierarchy |-> HierarchyNone, method |-> best.method]
        ELSE [image |-> img, gray |-> gray, contours |-> best.found.contours,
              hierarchy |-> Hierarchy(best.found.rows), method |-> best.method]

\* h[3] == -1 in the first loop, h[3] != -1 in the second
IsExternal(parent) == parent = -1
\* mutant: the children of contour 0 are left out
IsInternalPositive(parent) == parent > 0
IsInternal(parent) == parent # -1

\* int(a / b)
TruncDiv(a, b) ==
    IF (a >= 0) = (b > 0) THEN Abs(a) \div Abs(b) ELSE -(Abs(a) \div Abs(b))

\* circularidad = 4 * pi * area / perimetro^2, kept as the factor of pi
Circularidad(c) ==
    IF c.perimetro > 0 THEN Frac(4 * c.area, c.perimetro * c.perimetro) ELSE R(0)
\* mutant: no fallback value for a zeroth moment of 0
CentroXNoFallback(c) == IF c.m00 # 0 THEN TruncDiv(c.m10, c.m00) ELSE -1
CentroX(c) == IF c.m00 # 0 THEN TruncDiv(c.m10, c.m00) ELSE 0
CentroY(c) == IF c.m00 # 0 THEN TruncDiv(c.m01, c.m00) ELSE 0

EmptyTally == [cantidad |-> 0, perimetro_total |-> 0, area_total |-> 0, detalles |-> << >>]
EmptyMetrics == [contornos_externos |-> EmptyTally, contornos_internos |-> EmptyTally]

\* mutant: the ids of the detail records start at 1
AddContourIdFromOne(t, c) ==
    [cantidad |-> t.cantidad + 1,
     perimetro_total |-> t.perimetro_total + c.perimetro,
     area_total |-> t.area_total + c.area,
     detalles |-> Append(t.detalles,
                     [id |-> t.cantidad + 1, area |-> c.area, perimetro |-> c.perimetro,
                      circularidad |-> Circularidad(c),
                      centro_x |-> CentroX(c), centro_y |-> CentroY(c)])]

\* the detail record appended and the totals updated for one contour; the id
\* is the number of contours of the tier seen before
AddContour(t, c) ==
    [cantidad |-> t.cantidad + 1,
     perimetro_total |-> t.perimetro_total + c.perimetro,
     area_total |-> t.area_total + c.area,
     detalles |-> Append(t.detalles,
                     [id |-> t.cantidad, area |-> c.area, perimetro |-> c.perimetro,
                      circularidad |-> Circularidad(c),
                      centro_x |-> CentroX(c), centro_y |-> CentroY(c)])]

\* for i, h in enumerate(hierarchy[0]): if h[3] == -1: ...
RECURSIVE ExternalTally(_, _, _, _)
ExternalTally(contours, rows, i, t) ==
    IF i > Len(rows) THEN t
    ELSE ExternalTally(contours, rows, i + 1,
             IF IsExternal(rows[i]) THEN AddContour(t, contours[i]) ELSE t)

\* for i, h in enumerate(hierarchy[0]): if h[3] != -1: ...
RECURSIVE InternalTally(_, _, _, _)
InternalTally(contours, rows, i, t) ==
    IF i > Len(rows) THEN t
    ELSE InternalTally(contours, rows, i + 1,
             IF IsInternal(rows[i]) THEN AddContour(t, contours[i]) ELSE t)

\* the indices (from 0) of the contours drawn on an image, as marks
Drawn(rows, external) ==
    SelectSeq([k \in 1..Len(rows) |-> k - 1],
              LAMBDA i : IsExternal(rows[i + 1]) = external)

\* mutant: the exit without contours returns blank images without the message
EmptyResultUnmarked(img, thresh) ==
    LET blank_img == Img(img.shape[1], img.shape[2], << >>, << >>)
    IN  [images |-> [original |-> img, binaria |-> thresh,
                     contornos_externos |-> blank_img, contornos_internos |-> blank_img,
                     todos_contornos |-> blank_img, contornos_rellenos |-> thresh],
         metrics |-> EmptyMetrics]

\* the dictionary of the exit without contours
EmptyResult(img, thresh) ==
    LET blank_img == Img(img.shape[1], img.shape[2], <<"NO SE ENCONTRARON CONTORNOS">>, << >>)
    IN  [images |-> [original |-> img, binaria |-> thresh,
                     contornos_externos |-> blank_img, contornos_internos |-> blank_img,
                     todos_contornos |-> blank_img, contornos_rellenos |-> thresh],
         metrics |-> EmptyMetrics]

\* the dictionary of the normal exit
NormalResult(img, thresh, contours, hierarchy) ==
    LET h == img.shape[1]
        w == img.shape[2]
        rows == hierarchy.rows
    IN  [images |->
            [original |-> img, binaria |-> thresh,
             contornos_externos |-> Img(h, w, <<"CONTORNOS EXTERNOS">>, Drawn(rows, TRUE)),
             contornos_internos |-> Img(h, w, <<"CONTORNOS INTERNOS">>, Drawn(rows, FALSE)),
             todos_contornos |->
                 Img(h, w, <<"TODOS LOS CONTORNOS">>, Drawn(rows, TRUE) \o Drawn(rows, FALSE)),
             contornos_rellenos |-> Img(h, w, <<"CONTORNOS RELLENOS">>, Drawn(rows, TRUE))],
         metrics |-> [contornos_externos |-> ExternalTally(contours, rows, 1, EmptyTally),
                      contornos_internos |-> InternalTally(contours, rows, 1, EmptyTally)],
         contours |-> contours,
         hierarchy |-> hierarchy]

\* the dictionary of the except branch: the error image has the size of the
\* input when the input has at least two dimensions, 500 x 500 otherwise
ErrorResult(img, message) ==
    LET sized == img # NoImage /\ Len(img.shape) >= 2
        h == IF sized THEN img.shape[1] ELSE 500
        w == IF sized THEN img.shape[2] ELSE 500
        error_img == Img(h, w, <<"ERROR", message>>, << >>)
        blank_gray == Img(h, w, << >>, << >>)
    IN  [images |-> [original |-> error_img, binaria |-> blank_gray,
                     contornos_externos |-> error_img, contornos_internos |-> error_img,
                     todos_contornos |-> error_img, contornos_rellenos |-> blank_gray],
         metrics |-> EmptyMetrics,
         contours |-> << >>,
         hierarchy |-> HierarchyNone]

\* dxf_to_morphology(dxf_image)
DxfToMorphologyOf(img) ==
    IF img = NoImage \/ ImageSize(img) = 0
    THEN ErrorResult(img, "La imagen de entrada no es valida")
    ELSE LET p == ProcessDxfImage(img)
         IN  IF p.contours = << >>
             THEN EmptyResult(img, p.gray)
             ELSE NormalResult(img, p.gray, p.contours, p.hierarchy)

DxfToMorphology ==
    /\ results = NoResults
    /\ results' = DxfToMorphologyOf(image)
    /\ UNCHANGED <<scene, view, size, nwheel, last, painted, image, tabs>>

(***************************************************************************)
(* MorphologyResultsWindow: the contour tabs                               *)
(***************************************************************************)
\* the loop that looks for the main exterior: max_area starts at 0 and a
\* parentless contour replaces the candidate when area > max_area; the index
\* (from 0) stays -1 when no contour does
RECURSIVE MainExteriorFrom(_, _, _, _, _)
MainExteriorFrom(contours, rows, i, max_area, index) ==
    IF i > Len(contours) THEN index
    ELSE IF rows[i] = -1 /\ contours[i].area > max_area
         THEN MainExteriorFrom(contours, rows, i + 1, contours[i].area, i - 1)
         ELSE MainExteriorFrom(contours, rows, i + 1, max_area, index)

MainExterior(contours, rows) == MainExteriorFrom(contours, rows, 1, 0, -1)

\* holes / hole_indices: hierarchy[0][i][3] == main_exterior_index
HoleIndices(rows, main_exterior_index) ==
    {i \in 0..(Len(rows) - 1) : rows[i + 1] = main_exterior_index}

\* hole_children: hierarchy[0][i][3] in hole_indices
HoleChildren(rows, hole_indices) ==
    {i \in 0..(Len(rows) - 1) : rows[i + 1] \in hole_indices}

\* setup_ui(): results.get('contours', []) and results.get('hierarchy', None),
\* then the three tabs; each tab returns at once without contours or hierarchy
ResultsWindowOf(res) ==
    LET contours == IF "contours" \in DOMAIN res THEN res.contours ELSE << >>
        hierarchy == IF "hierarchy" \in DOMAIN res THEN res.hierarchy ELSE HierarchyNone
    IN  IF contours = << >> \/ hierarchy.none
        THEN [shown |-> FALSE, exterior_index |-> -1, holes |-> {}, hole_children |-> {}]
        ELSE LET main == MainExterior(contours, hierarchy.rows)
                 holes == HoleIndices(hierarchy.rows, main)
             IN  [shown |-> TRUE, exterior_index |-> main, holes |-> holes,
                  hole_children |-> HoleChildren(hierarchy.rows, holes)]

\* MorphologyResultsWindow(best_result)
OpenResultsWindow ==
    /\ results # NoResults
    /\ tabs = NoTabs
    /\ tabs' = ResultsWindowOf(results)
    /\ UNCHANGED <<scene, view, size, nwheel, last, painted, image, results>>

\* the analysis of a raster and the window that shows its result
InitMorph ==
    /\ dxf_doc = [loaded |-> FALSE, msp |-> << >>]
    /\ dxf_entities = << >>
    /\ entity_counts = << >>
    /\ bounds = <<0, 0, 0, 0>>
    /\ zoom_factor = R(1)
    /\ pan_offset_x = R(0)
    /\ pan_offset_y = R(0)
    /\ transform = Identity
    /\ size = <<600, 400>>
    /\ nwheel = 0
    /\ last = Done("init", TRUE)
    /\ painted = NoPaint
    /\ \/ image \in SelectionImages \cup InvalidImages
       \/ \E n \in 1..MaxContours : \E f \in ParentColumns(n) :
              \E s \in [1..n -> Shapes] : image = ForestImage(n, f, s)
    /\ results = NoResults
    /\ tabs = NoTabs

NextMorph ==
    \/ DxfToMorphology
    \/ OpenResultsWindow

SpecMorph == InitMorph /\ [][NextMorph]_vars

(***************************************************************************)
(* DXFViewerApp.perform_morphology_analysis: export, analysis, window      *)
(***************************************************************************)
\* what the three thresholded copies of an exported view may hold: nothing, a
\* single outline, an outline with a hole in it
ExportContents ==
    { <<NothingFound, NothingFound, NothingFound>>,
      <<Uniform(1, Square), NothingFound, NothingFound>>,
      <<Forest(2, [i \in 0..1 |-> i - 1], <<Square, Dot>>), NothingFound, NothingFound>> }

\* the array convert_to_opencv_image returns for a widget of width sz[1] and
\* height sz[2]: shape (height, width, 3)
ExportedRasters(sz) == {Raster(<<sz[2], sz[1], 3>>, c) : c \in ExportContents}

\* the steps after the check for a loaded drawing: convert_to_opencv_image,
\* dxf_to_morphology and MorphologyResultsWindow; a draw_entity call that
\* raises ends the request in the except branch
AnalyseExport ==
    LET d == DrawEntities(dxf_entities, 1, << >>)
    IN  /\ painted' = [op |-> "export", ents |-> dxf_entities, tr |-> transform,
                       calls |-> d.calls, raised |-> d.raised, empty |-> FALSE]
        /\ IF d.raised
           THEN /\ last' = Done("analysis", FALSE)
                /\ UNCHANGED morph
           ELSE /\ \E img \in ExportedRasters(size) :
                       /\ image' = img
                       /\ results' = DxfToMorphologyOf(img)
                       /\ tabs' = ResultsWindowOf(DxfToMorphologyOf(img))
                /\ last' = Done("analysis", TRUE)
        /\ UNCHANGED <<scene, view, size, nwheel>>

\* the request without the check for a loaded drawing
PerformMorphologyAnalysisUnguarded == AnalyseExport

\* perform_morphology_analysis()
PerformMorphologyAnalysis ==
    IF dxf_entities = << >>
    THEN \* "No hay archivo DXF cargado para analizar."
         /\ last' = Done("analysis", FALSE)
         /\ UNCHANGED <<scene, view, size, nwheel, painted, morph>>
    ELSE AnalyseExport

\* the drawings the analysis is asked for: a drawing that loads and one in
\* which an entity raises
AnalysisFiles ==
    {[readable |-> TRUE, msp |-> <<HLine, InsertE, SmallCircle>>],
     [readable |-> TRUE, msp |-> <<SmallCircle, BadHatch, HLine>>]}

\* the viewer with the analysis button
NextAnalysis ==
    \/ \E file \in AnalysisFiles : LoadDxf(file)
    \/ \E mouse \in MousePositions, delta \in WheelDeltas : WheelEvent(mouse, delta)
    \/ PerformMorphologyAnalysis

SpecAnalysis == Init /\ [][NextAnalysis]_vars

(***************************************************************************)
(* Properties                                                              *)
(***************************************************************************)
\* toScene: the scene point under a device point, as wheelEvent inverts it
ToScene(tr, devicePoint) == Map(Inverted(tr), RPoint(devicePoint))
\* toDevice: the device point a scene point is drawn at
ToDevice(tr, scenePoint) == Map(tr, scenePoint)

Fitted == (last.op = "load" /\ last.ret) \/ last.op = "reset"
Loaded == last.op = "load" /\ last.ret
ZoomInClampRange == RLeq(ZoomMin, zoom_factor) /\ RLeq(zoom_factor, ZoomMax)

\* C1: cursor anchoring. After every wheel event, the scene point under the
\* cursor is the scene point that was under it before the event.
C1_CursorAnchored ==
    last.op = "wheel" => ToScene(transform, last.mouse) = last.old_pos

\* a wheel event that zoomed in on a loaded scene away from the device origin
\* and was clamped at the upper bound
C1_Witness ==
    /\ last.op = "wheel" /\ last.up /\ last.mouse = <<450, 100>>
    /\ dxf_entities # << >>
    /\ zoom_factor = ZoomMax
    /\ last.old_pos[2].n # 0

\* C2: zoom_factor lies in [0.01, 100] in every reachable state.
C2_ZoomClamped == ZoomInClampRange

\* C3: in every reachable state the transform maps scene (x, y) to device
\* (pan_offset_x + x*zoom_factor, pan_offset_y - y*zoom_factor).
C3_TransformAgrees ==
    \A pt \in {<<0, 0>>, <<1, 1>>, <<3, -2>>} :
        ToDevice(transform, RPoint(pt)) =
            <<RAdd(pan_offset_x, RMul(R(pt[1]), zoom_factor)),
              RSub(pan_offset_y, RMul(R(pt[2]), zoom_factor))>>

BoundsCentre == <<Frac(bounds[1] + bounds[3], 2), Frac(bounds[2] + bounds[4], 2)>>
ViewportCentre == <<Frac(size[1], 2), Frac(size[2], 2)>>

\* C4: after a successful load of any entity sequence (the empty one
\* included) the centre of the bounds is drawn at the centre of the viewport.
C4_CentreAfterLoad ==
    Loaded => ToDevice(transform, BoundsCentre) = ViewportCentre

\* C5: when reset_view computes the fit (the entity list is not empty), zoom
\* is the smaller of (width - 80)/bounds_width and (height - 80)/bounds_height
\* for a box with positive extents, and exactly 1 for a box with a zero extent.
C5_FitZoomValue ==
    (Fitted /\ dxf_entities # << >>) =>
        LET bw == bounds[3] - bounds[1]
            bh == bounds[4] - bounds[2]
            zx == zoom_factor.n * bw
            zy == zoom_factor.n * bh
            ax == (size[1] - 2 * 40) * zoom_factor.d
            ay == (size[2] - 2 * 40) * zoom_factor.d
        IN  IF bw > 0 /\ bh > 0
            THEN zx <= ax /\ zy <= ay /\ (zx = ax \/ zy = ay)
            ELSE zoom_factor = R(1)

\* a fit in which the two axis ratios differ, and a fit of a degenerate box
C5_Witness ==
    /\ Fitted /\ dxf_entities # << >>
    /\ bounds[3] - bounds[1] > 0 /\ bounds[4] - bounds[2] > 0
    /\ zoom_factor.n * (bounds[4] - bounds[2]) < (size[2] - 80) * zoom_factor.d

C5_WitnessDegenerate ==
    Fitted /\ dxf_entities # << >> /\ bounds[4] = bounds[2] /\ bounds[3] > bounds[1]

\* C6: after load_dxf returns True, and after reset_view, zoom and pan are the
\* fit of the current bounds into the current viewport, whatever they were
\* before (a scene without entities included).
C6_ViewReinitialised ==
    Fitted =>
        LET z == FitZoom(bounds, size)
        IN  /\ zoom_factor = z
            /\ pan_offset_x = FitPanX(bounds, size, z)
            /\ pan_offset_y = FitPanY(bounds, size, z)

\* the values a sequence holds
Range(s) == {s[k] : k \in 1..Len(s)}
\* the x and y values the entities of a modelspace hand to the bounds
CollectedX(msp) == UNION {Range(XCoords(msp[i])) : i \in 1..Len(msp)}
CollectedY(msp) == UNION {Range(YCoords(msp[i])) : i \in 1..Len(msp)}

\* no entity of the modelspace has a bounding point (and none raises)
NoBoundingPoint(msp) ==
    \A i \in 1..Len(msp) :
        ~Raises(msp[i]) /\ XCoords(msp[i]) = << >> /\ YCoords(msp[i]) = << >>

\* C7: loading a readable document whose entity sequence is empty, or in
\* which no entity has a bounding point, succeeds and leaves exactly the
\* fallback bounds (-100, -100, 100, 100).
C7_EmptyGivesFallback ==
    (last.op = "load" /\ last.readable /\ NoBoundingPoint(dxf_doc.msp)) =>
        (last.ret /\ bounds = <<-100, -100, 100, 100>>)

\* an empty document loaded over a scene that had other bounds and a zoomed view
C7_Witness ==
    /\ last.op = "load" /\ last.readable /\ dxf_doc.msp = << >>
    /\ nwheel > 0 /\ zoom_factor # R(1)

\* the entities have bounding points, all on one vertical or horizontal line
DegenerateScene(msp) ==
    /\ CollectedX(msp) # {} /\ CollectedY(msp) # {}
    /\ Cardinality(CollectedX(msp)) = 1 \/ Cardinality(CollectedY(msp)) = 1

\* C8 as stated: a scene with zero-size bounds gets the fallback extent.
C8_DegenerateGivesFallback ==
    (Loaded /\ DegenerateScene(dxf_doc.msp)) => bounds = FallbackBounds

\* C8 as amended: a scene with zero-size bounds keeps its zero-size box, the
\* min and max of the collected points on both axes.
C8_DegenerateKept ==
    (Loaded /\ DegenerateScene(dxf_doc.msp)) =>
        LET cx == CollectedX(dxf_doc.msp)
            cy == CollectedY(dxf_doc.msp)
        IN  /\ bounds[1] \in cx /\ bounds[3] \in cx
            /\ bounds[2] \in cy /\ bounds[4] \in cy
            /\ \A x \in cx : bounds[1] <= x /\ x <= bounds[3]
            /\ \A y \in cy : bounds[2] <= y /\ y <= bounds[4]
            /\ bounds[1] = bounds[3] \/ bounds[2] = bounds[4]

\* a single POINT has been loaded
C8_Witness ==
    Loaded /\ dxf_doc.msp = <<PointE>> /\ bounds = <<5, 7, 5, 7>>

\* C9: the stored bounds satisfy min_x <= max_x and min_y <= max_y in every
\* reachable state.
C9_BoundsOrdered == bounds[1] <= bounds[3] /\ bounds[2] <= bounds[4]

\* a load that failed inside the loop, over a scene with a proper box
C9_Witness ==
    /\ last.op = "load" /\ last.readable /\ ~last.ret
    /\ bounds[1] < bounds[3] /\ bounds[2] < bounds[4] /\ bounds # FallbackBounds

\* C10: a failure in one entity is isolated. Loading a readable document
\* succeeds, every entity is stored, and every entity that does not fail
\* has its points inside the bounds.
C10_FailureIsolated ==
    (last.op = "load" /\ last.readable) =>
        LET msp == dxf_doc.msp
        IN  /\ last.ret
            /\ dxf_entities = msp
            /\ \A i \in 1..Len(msp) :
                   ~Raises(msp[i]) =>
                       /\ \A x \in Range(XCoords(msp[i])) : bounds[1] <= x /\ x <= bounds[3]
                       /\ \A y \in Range(YCoords(msp[i])) : bounds[2] <= y /\ y <= bounds[4]

\* the entities draw_entity was called for in the last redraw or export
Visited == {painted.calls[k].i : k \in 1..Len(painted.calls)}

\* C11: a failure in drawing one entity is isolated. In the redraw and in the
\* export, draw_entity is called for every entity of the sequence, those
\* after an entity whose drawing failed included.
C11_RenderIsolated ==
    painted.op \in {"paint", "export"} =>
        \A i \in 1..Len(painted.ents) : i \in Visited

\* the type tags load_dxf or draw_entity has a branch for
SupportedTypes ==
    {"LINE", "CIRCLE", "ARC", "LWPOLYLINE", "POLYLINE", "SPLINE", "ELLIPSE",
     "POINT", "TEXT", "MTEXT", "SOLID", "3DFACE", "HATCH"}
IsSupported(e) == e.type \in SupportedTypes
Occurrences(msp, t) == Cardinality({i \in 1..Len(msp) : msp[i].type = t})

\* C12: an entity with a type tag outside the supported set gives no
\* bounding point and no draw primitive, is drawn with the default colour,
\* and the entities after it are still counted, bounded and rendered.
C12_UnknownTypeSkipped ==
    /\ (last.op = "load" /\ last.readable) =>
           \A i \in 1..Len(dxf_doc.msp) :
               (~IsSupported(dxf_doc.msp[i]) /\ i <= Len(dxf_entities)
                    /\ i < Len(dxf_doc.msp)) =>
                   /\ i + 1 <= Len(dxf_entities)
                   /\ dxf_entities[i + 1] = dxf_doc.msp[i + 1]
                   /\ entity_counts[dxf_doc.msp[i + 1].type] =
                          Occurrences(dxf_entities, dxf_doc.msp[i + 1].type)
    /\ Loaded =>
           LET known == ScanEntities(SelectSeq(dxf_doc.msp, IsSupported), 1, ScanStart)
           IN  /\ bounds = ComputeBounds(known.xs, known.ys)
               /\ \A i \in 1..Len(dxf_doc.msp) :
                      ~IsSupported(dxf_doc.msp[i]) =>
                          /\ XCoords(dxf_doc.msp[i]) = << >>
                          /\ YCoords(dxf_doc.msp[i]) = << >>
    /\ \A k \in 1..Len(painted.calls) :
           LET c == painted.calls[k]
           IN  ~IsSupported(painted.ents[c.i]) =>
                   /\ c.color = <<255, 200, 0>>
                   /\ c.prims = << >>
                   /\ ~c.raised
                   /\ c.i < Len(painted.ents) => c.i + 1 \in Visited

\* a line, an INSERT and a circle, loaded and exported: the circle after the
\* INSERT is in the bounds and is drawn
C12_Witness ==
    /\ Loaded /\ dxf_entities = <<HLine, InsertE, SmallCircle>>
    /\ bounds = <<0, -1, 260, 1>>
    /\ painted.op = "export" /\ painted.ents = dxf_entities
    /\ Len(painted.calls) = 3 /\ painted.calls[3].prims # << >>

\* dxf_to_morphology has returned; its raster was a non-empty array
Returned == results # NoResults
ValidRaster == image # NoImage /\ ImageSize(image) > 0
\* the number of contours each strategy finds in the raster
CountOf(k) == Len(image.found[k].contours)
MaxOfCounts == SeqMax(<<CountOf(1), CountOf(2), CountOf(3)>>)
\* the first strategy, in the order fixed, adaptive, Otsu, with the most contours
FirstWithMax == CHOOSE k \in 1..3 : CountOf(k) = MaxOfCounts /\ \A j \in 1..(k - 1) : CountOf(j) < MaxOfCounts

\* C13: the contours analysed are those of a strategy with the greatest
\* count, and among strategies with that count those of the first in the
\* order fixed, adaptive, Otsu.
C13_SelectsFirstMaximum ==
    (Returned /\ ValidRaster /\ MaxOfCounts > 0) =>
        /\ results.contours = image.found[FirstWithMax].contours
        /\ results.hierarchy = Hierarchy(image.found[FirstWithMax].rows)
        /\ Len(results.contours) = MaxOfCounts

\* fixed finds 1 contour, adaptive and Otsu find 2: the adaptive ones are taken
C13_Witness ==
    /\ Returned /\ ValidRaster
    /\ CountOf(1) = 1 /\ CountOf(2) = 2 /\ CountOf(3) = 2
    /\ results.contours = <<Square, Square>>

\* the texts on the images of the result
TextsOf(res) ==
    UNION {Range(res.images[k].texts) :
              k \in {"contornos_externos", "contornos_internos", "todos_contornos"}}
NoContoursIndicated(res) == "NO SE ENCONTRARON CONTORNOS" \in TextsOf(res)
ErrorMarked(res) ==
    \A k \in {"original", "contornos_externos", "contornos_internos", "todos_contornos"} :
        "ERROR" \in Range(res.images[k].texts)

\* C14: when the three strategies find no contour the analysis returns the
\* empty result: both tallies are empty, the images are not the error images
\* and carry the message NO SE ENCONTRARON CONTORNOS, which no other result
\* carries.
C14_NoContoursState ==
    Returned =>
        IF ValidRaster /\ MaxOfCounts = 0
        THEN /\ results.metrics = EmptyMetrics
             /\ results.metrics.contornos_externos.detalles = << >>
             /\ results.metrics.contornos_internos.detalles = << >>
             /\ NoContoursIndicated(results)
             /\ "ERROR" \notin TextsOf(results)
             /\ results.images.original = image
        ELSE ~NoContoursIndicated(results)

C14_Witness ==
    /\ Returned /\ ValidRaster /\ MaxOfCounts = 0
    /\ results.metrics.contornos_externos.cantidad = 0
    /\ NoContoursIndicated(results)

\* the result of the normal exit: a forest was analysed
Analysed == Returned /\ "contours" \in DOMAIN results /\ results.contours # << >>
ParentOf(i) == results.hierarchy.rows[i + 1]
Indices == 0..(Len(results.contours) - 1)
Parentless == {i \in Indices : ParentOf(i) = -1}

\* C18: the external tally counts the contours without parent, the internal
\* tally those with a parent, and the two counts add up to the number of
\* contours.
C18_TalliesPartition ==
    Analysed =>
        LET ext == results.metrics.contornos_externos
            int == results.metrics.contornos_internos
        IN  /\ ext.cantidad = Cardinality(Parentless)
            /\ Len(ext.detalles) = ext.cantidad
            /\ int.cantidad = Cardinality(Indices \ Parentless)
            /\ Len(int.detalles) = int.cantidad
            /\ ext.cantidad + int.cantidad = Len(results.contours)

\* two contours without parent and two with a parent, one of them a child of
\* contour 0
C18_Witness ==
    /\ Analysed
    /\ results.metrics.contornos_externos.cantidad = 2
    /\ results.metrics.contornos_internos.cantidad = 2
    /\ \E i \in Indices : ParentOf(i) = 0

\* C19: for a raster that is None or has size 0 the analysis returns the
\* error result: error-marked images, empty tallies, an empty contour list
\* and no hierarchy.
C19_InvalidRasterGivesError ==
    (Returned /\ ~ValidRaster) =>
        /\ ErrorMarked(results)
        /\ results.metrics = EmptyMetrics
        /\ results.contours = << >>
        /\ results.hierarchy.none

\* C20: every dictionary the analysis returns has the images, the metrics,
\* the contour list and the hierarchy.
C20_BundleComplete ==
    Returned => {"images", "metrics", "contours", "hierarchy"} \subseteq DOMAIN results

\* the window has classified the contours of a forest
Classified == tabs # NoTabs /\ tabs.shown
AreaOf(i) == results.contours[i + 1].area

\* C15: when the forest has a contour without parent, the main exterior is
\* a contour without parent of the greatest area among them, the one with
\* the lowest index among those of that area; one is selected also when
\* every contour without parent has area 0.
C15_MainExteriorSelected ==
    (Classified /\ Parentless # {}) =>
        /\ tabs.exterior_index \in Parentless
        /\ \A j \in Parentless : AreaOf(j) <= AreaOf(tabs.exterior_index)
        /\ \A j \in Parentless :
               AreaOf(j) = AreaOf(tabs.exterior_index) => tabs.exterior_index <= j

\* C16: the hole set is the set of contours whose parent is the main
\* exterior, and it holds no contour without parent.
C16_HolesAreChildrenOfMain ==
    Classified =>
        /\ tabs.holes = {i \in Indices : ParentOf(i) = tabs.exterior_index}
        /\ tabs.holes \cap Parentless = {}
        /\ (results.hierarchy.rows = <<-1, 0, 0, 1>> /\ AreaOf(0) > 0) =>
               /\ tabs.exterior_index = 0
               /\ tabs.holes = {1, 2}
               /\ tabs.hole_children = {3}

\* the contours on the way from contour i up to a contour without parent,
\* contour i left out
RECURSIVE AncestorsOf(_)
AncestorsOf(i) == IF ParentOf(i) = -1 THEN {} ELSE {ParentOf(i)} \cup AncestorsOf(ParentOf(i))

RECURSIVE SumOf(_, _)
SumOf(detalles, field) ==
    IF detalles = << >> THEN 0 ELSE detalles[1][field] + SumOf(Tail(detalles), field)

\* the contours of a tier, in forest order
TierContours(external) ==
    SelectSeq([k \in 1..Len(results.contours) |-> k - 1],
              LAMBDA i : (ParentOf(i) = -1) = external)
TallyOf(external) ==
    IF external THEN results.metrics.contornos_externos
    ELSE results.metrics.contornos_internos

\* C23: in each tally of a successful analysis the count is the number of
\* detail records, the totals are the sums of the detail perimeters and
\* areas, and the ids are 0 .. count - 1 in forest order.
C23_TallyConsistent ==
    Analysed =>
        \A external \in BOOLEAN :
            LET t == TallyOf(external)
                tier == TierContours(external)
            IN  /\ t.cantidad = Len(t.detalles)
                /\ t.perimetro_total = SumOf(t.detalles, "perimetro")
                /\ t.area_total = SumOf(t.detalles, "area")
                /\ Len(tier) = Len(t.detalles)
                /\ \A k \in 1..Len(t.detalles) :
                       /\ t.detalles[k].id = k - 1
                       /\ t.detalles[k].area = AreaOf(tier[k])
                       /\ t.detalles[k].perimetro = results.contours[tier[k] + 1].perimetro

\* a dot and two squares outside, a square inside: totals 80 and 200 outside
C23_Witness ==
    /\ Analysed
    /\ results.metrics.contornos_externos.cantidad = 3
    /\ results.metrics.contornos_externos.perimetro_total = 80
    /\ results.metrics.contornos_externos.area_total = 200
    /\ results.metrics.contornos_internos.cantidad = 1
    /\ results.metrics.contornos_internos.area_total = 100

\* C24: a contour with perimeter 0 gets circularity 0 and one with zeroth
\* moment 0 gets the centroid (0, 0); it is counted and recorded, and so are
\* the contours after it.
C24_DegenerateFallbacks ==
    Analysed =>
        \A external \in BOOLEAN :
            LET t == TallyOf(external)
                tier == TierContours(external)
            IN  /\ Len(t.detalles) = Len(tier)
                /\ t.cantidad = Len(tier)
                /\ \A k \in 1..Len(tier) :
                       LET c == results.contours[tier[k] + 1]
                           d == t.detalles[k]
                       IN  /\ c.perimetro = 0 => d.circularidad = R(0)
                           /\ c.m00 = 0 => (d.centro_x = 0 /\ d.centro_y = 0)
                           /\ c.perimetro > 0 =>
                                  d.circularidad =
                                      Frac(4 * c.area, c.perimetro * c.perimetro)
                           /\ c.m00 > 0 =>
                                  /\ d.centro_x * c.m00 <= c.m10
                                  /\ c.m10 < (d.centro_x + 1) * c.m00
                                  /\ d.centro_y * c.m00 <= c.m01
                                  /\ c.m01 < (d.centro_y + 1) * c.m00

\* a dot followed by a square in the same tier: the dot has the fallback
\* values, the square after it its own
C24_Witness ==
    /\ Analysed
    /\ \E k \in 1..(Len(results.metrics.contornos_externos.detalles) - 1) :
           LET d == results.metrics.contornos_externos.detalles
           IN  /\ d[k].perimetro = 0 /\ d[k].circularidad = R(0)
               /\ d[k].centro_x = 0 /\ d[k].centro_y = 0
               /\ d[k + 1].circularidad = Frac(1, 4)
               /\ d[k + 1].centro_x = 15 /\ d[k + 1].centro_y = 25

\* C27: the three tiers are pairwise disjoint: the main exterior is not a
\* hole, no hole is a hole-child, and no contour without parent is a hole or
\* a hole-child.
C27_TiersDisjoint ==
    Classified =>
        /\ tabs.exterior_index \notin tabs.holes
        /\ tabs.exterior_index \notin tabs.hole_children
        /\ tabs.holes \cap tabs.hole_children = {}
        /\ Parentless \cap (tabs.holes \cup tabs.hole_children) = {}

\* the forest has depth at most two: every parent is a contour without parent
TwoLevel == \A i \in Indices : ParentOf(i) # -1 => ParentOf(ParentOf(i)) = -1

C26_FailedLoadKeepsScene ==
    [][(last'.op = "load" /\ ~last'.ret) =>
           UNCHANGED <<dxf_entities, entity_counts, bounds,
                       zoom_factor, pan_offset_x, pan_offset_y>>]_vars

\* C29: a wheel event that pushes past the clamp bound zoom_factor sits at
\* leaves zoom_factor and both pan offsets unchanged, and a wheel event with
\* a delta that is not positive zooms out.
C29_ClampedWheelKeepsView ==
    last.op = "wheel" =>
        /\ ((last.old_zoom = ZoomMax /\ last.delta > 0)
                \/ (last.old_zoom = ZoomMin /\ last.delta <= 0)) =>
               /\ zoom_factor = last.old_zoom
               /\ <<pan_offset_x, pan_offset_y>> = last.old_pan
        /\ last.delta <= 0 =>
               zoom_factor = RMax(ZoomMin, RMin(ZoomMax, RDiv(last.old_zoom, ZoomDelta)))
        /\ last.delta > 0 =>
               zoom_factor = RMax(ZoomMin, RMin(ZoomMax, RMul(last.old_zoom, ZoomDelta)))

\* zoom in at 100 with the cursor away from the origin, over a panned view
C29_Witness ==
    /\ last.op = "wheel" /\ last.old_zoom = ZoomMax /\ last.delta > 0
    /\ last.mouse = <<450, 100>> /\ zoom_factor = ZoomMax
    /\ <<pan_offset_x, pan_offset_y>> = last.old_pan
    /\ pan_offset_x # R(0)

\* zoom out at 0.01, and a delta of 0 taken as zoom out
C29_WitnessZoomOut ==
    /\ last.op = "wheel" /\ last.old_zoom = ZoomMin /\ last.delta = 0
    /\ zoom_factor = ZoomMin

\* the entity of the i-th draw_entity call of the last redraw or export
Call(k) == painted.calls[k]
EntityOf(k) == painted.ents[painted.calls[k].i]

\* int(radius * zoom * span * 0.5) for the span in radians: the number of
\* segments when the count follows the radius on the device
DeviceSteps(e, zoom) ==
    LET v == RMul(Frac(e.r * ArcSpan(e) * 355, 113 * 360), zoom)
    IN  v.n \div v.d

\* C21: the number of segments an arc is drawn with does not go down when
\* the zoom goes up, and it is larger once the radius on the device times
\* the span asks for more segments than were drawn before.
C21_ArcSegmentsFollowZoom ==
    [][(painted.op = "paint" /\ painted'.op = "paint" /\ painted'.ents = painted.ents
            /\ RLess(painted.tr.m11, painted'.tr.m11)) =>
           \A k \in 1..Len(painted.calls) :
               painted.ents[k].type = "ARC" =>
                   /\ Len(painted'.calls[k].prims) >= Len(painted.calls[k].prims)
                   /\ DeviceSteps(painted.ents[k], painted'.tr.m11)
                          > Len(painted.calls[k].prims) =>
                          Len(painted'.calls[k].prims) > Len(painted.calls[k].prims)]_vars

\* the box load_dxf computes from one entity alone
OwnBounds(e) == ComputeBounds(XCoords(e), YCoords(e))
InBox(pt, b) == b[1] <= pt[1] /\ pt[1] <= b[3] /\ b[2] <= pt[2] /\ pt[2] <= b[4]
\* the scene points of the primitives of a call: the ends of its lines and
\* the sampled points at quarter turns
EmittedPoints(k) ==
    UNION {{Call(k).prims[j].a, Call(k).prims[j].b} :
              j \in {i \in 1..Len(Call(k).prims) : Call(k).prims[i].kind = "line"}}
    \cup QuarterSamples(EntityOf(k))

\* C22: every scene point drawn for a line, an arc, an ellipse, a polyline
\* or a hatch path lies in the box computed from that entity alone.
C22_BoundsConservative ==
    \A k \in 1..Len(painted.calls) :
        EntityOf(k).type \in {"LINE", "ARC", "ELLIPSE", "LWPOLYLINE", "POLYLINE", "HATCH"} =>
            \A pt \in EmittedPoints(k) : InBox(pt, OwnBounds(EntityOf(k)))

\* C25: a closed polyline or hatch path with n >= 2 vertices is drawn with n
\* segments, the last from vertex n to vertex 1; an open one with n - 1
\* segments and none from vertex n to vertex 1.
C25_ClosedPathsClosed ==
    \A k \in 1..Len(painted.calls) :
        LET e == EntityOf(k)
            n == Len(e.p)
            prims == Call(k).prims
        IN  (e.type \in {"LWPOLYLINE", "POLYLINE", "HATCH"} /\ n >= 2 /\ ~Call(k).raised) =>
                /\ \A j \in 1..(n - 1) : prims[j] = DrawLine(e.p[j], e.p[j + 1])
                /\ IF IsClosed(e)
                   THEN Len(prims) = n /\ prims[n] = DrawLine(e.p[n], e.p[1])
                   ELSE /\ Len(prims) = n - 1
                        /\ \A j \in 1..Len(prims) : prims[j] # DrawLine(e.p[n], e.p[1])

\* a closed LWPOLYLINE with three vertices exported with three segments, an
\* ellipse and an open POLYLINE with four vertices and three segments
C25_Witness ==
    /\ painted.op = "export" /\ painted.ents = <<ClosedLw, EllipseV, OpenPoly>>
    /\ Len(painted.calls) = 3
    /\ Len(painted.calls[1].prims) = 3
    /\ painted.calls[1].prims[3] = DrawLine(<<40, 30>>, <<0, 0>>)
    /\ Len(painted.calls[3].prims) = 3

\* C30: a morphology analysis request leaves the entity list, the bounds, the
\* zoom, the pan offsets and the transform as they were, and with no entity
\* loaded it neither renders nor analyses anything.
C30_AnalysisKeepsSceneAndView ==
    [][last'.op = "analysis" =>
           /\ UNCHANGED <<dxf_entities, entity_counts, bounds, zoom_factor,
                          pan_offset_x, pan_offset_y, transform>>
           /\ dxf_entities = << >> =>
                  (~last'.ret /\ UNCHANGED <<painted, image, results, tabs>>)]_vars

\* an analysis of a loaded drawing, after the wheel moved the view, that
\* exported the view and opened the window with its result
C30_Witness ==
    /\ last.op = "analysis" /\ last.ret
    /\ nwheel > 0 /\ dxf_entities # << >>
    /\ painted.op = "export" /\ painted.tr = transform
    /\ results # NoResults /\ tabs # NoTabs /\ tabs.shown

\* a request with no drawing loaded, after which nothing was exported
C30_WitnessWarning ==
    /\ last.op = "analysis" /\ ~last.ret
    /\ dxf_entities = << >> /\ painted = NoPaint /\ results = NoResults

====
